---- MODULE Spec2Model ----
(***************************************************************************)
(* A model of fastrace-google-cloud (src/src/lib.rs): the reporter that    *)
(* converts fastrace span records to Google Cloud Trace spans and sends    *)
(* them with one batch-write call per non-empty report.                    *)
(*                                                                         *)
(* Representation notes.                                                   *)
(*  - Option<T>: None is <<>>, Some(x) is <<x>>.                           *)
(*  - HashMap<K, V>: a function whose DOMAIN is the key set.               *)
(*  - u64 nanosecond values exceed TLC's 32-bit integers, so a u64 is kept *)
(*    exactly, as three base-10^9 digits <<a, b, c>> = a*10^18 + b*10^9 + c*)
(*    (a <= 18); an i64 seconds value is two such digits <<a, b>>.         *)
(*  - AttributeValue: <<"string", s>> (the only variant the code builds).  *)
(*  - SpanKind: <<variant, raw>>; raw is "" except for UnknownValue.       *)
(***************************************************************************)
EXTENDS Integers, Sequences, FiniteSets, TLC

VARIABLES
    adapter,              \* "unbuilt", "built" or "panicked" (construction)
    config,               \* the fields of GoogleCloudReporter set by the constructor
    default_client_calls, \* how often default_trace_client() has been awaited
    tokio_runtime,        \* the LazyLock: "uninit" or "init"
    runtime_builds,       \* how often the runtime factory has run
    semantic_mapping,     \* Option: the table opentelemetry_semantic_mapping() returned
    reports,              \* number of report() calls made
    nonempty_reports,     \* number of report() calls with a non-empty batch
    batch_writes,         \* number of batch_write_spans().send() calls issued
    last_call,            \* Option: the last batch-write request sent
    last_report,          \* Option: the last report() call: batch, result, logged
    conv_log,             \* converter invocations of the last report, in order
    overflow_checks,      \* build profile: TRUE when u64 `+` panics on overflow
    props_in,             \* Option: input of a convert_properties call
    props_out,            \* Option: the Attributes it returned
    time_in,              \* Option: <<begin_time_unix_ns, duration_ns>> of a span
    time_out              \* Option: the start/end timestamps convert_span computed

vars == <<adapter, config, default_client_calls, tokio_runtime, runtime_builds,
          semantic_mapping, reports, nonempty_reports, batch_writes, last_call,
          last_report, conv_log, overflow_checks, props_in, props_out, time_in,
          time_out>>

None == <<>>
Some(x) == <<x>>

(***************************************************************************)
(* Bounds of the model.                                                    *)
(***************************************************************************)
MaxReports == 2
MaxBatch == 2
MaxProps == 3

(***************************************************************************)
(* HashMap operations.                                                     *)
(***************************************************************************)
EmptyMap == [k \in {} |-> None]

\* HashMap::insert: the new value replaces an existing entry for the key.
MapInsert(m, k, v) == [x \in DOMAIN m \cup {k} |-> IF x = k THEN v ELSE m[x]]

\* HashMap::remove: the removed value, if any, and the map without the key.
MapRemove(m, k) ==
    [value |-> IF k \in DOMAIN m THEN Some(m[k]) ELSE None,
     map |-> [x \in DOMAIN m \ {k} |-> m[x]]]

\* HashMap::get(k).copied()
MapGet(m, k) == IF k \in DOMAIN m THEN Some(m[k]) ELSE None

\* A mutated extend/from: an occupied key keeps its first value.
RECURSIVE MapExtendFirstWins(_, _)
MapExtendFirstWins(m, pairs) ==
    IF pairs = <<>> THEN m
    ELSE MapExtendFirstWins(
             IF Head(pairs)[1] \in DOMAIN m THEN m
             ELSE MapInsert(m, Head(pairs)[1], Head(pairs)[2]),
             Tail(pairs))

\* HashMap::extend / HashMap::from([...]): the pairs are inserted in
\* iteration order, so the last pair with a given key decides its value.
RECURSIVE MapExtend(_, _)
MapExtend(m, pairs) ==
    IF pairs = <<>> THEN m
    ELSE MapExtend(MapInsert(m, Head(pairs)[1], Head(pairs)[2]), Tail(pairs))

(***************************************************************************)
(* u64 nanoseconds, as three base-10^9 digits, and timestamps.             *)
(***************************************************************************)
NanosPerSec == 1000000000

Ns(a, b, c) == <<a, b, c>>
U64Max == Ns(18, 446744073, 709551615)      \* 2^64 - 1
TwoPow64 == Ns(18, 446744073, 709551616)    \* 2^64

\* x <= y for digit sequences of equal length, most significant first
RECURSIVE DigitsLe(_, _)
DigitsLe(x, y) ==
    IF x = <<>> THEN TRUE
    ELSE IF Head(x) # Head(y) THEN Head(x) < Head(y)
    ELSE DigitsLe(Tail(x), Tail(y))

\* the exact sum of two u64 values (the top digit may exceed 18)
ExactAdd(x, y) ==
    LET c == x[3] + y[3]
        b == x[2] + y[2] + (c \div NanosPerSec)
        a == x[1] + y[1] + (b \div NanosPerSec)
    IN  Ns(a, b % NanosPerSec, c % NanosPerSec)

\* x - y for x >= y
ExactSub(x, y) ==
    LET c == x[3] - y[3]
        bc == IF c < 0 THEN 1 ELSE 0
        b == x[2] - y[2] - bc
        bb == IF b < 0 THEN 1 ELSE 0
    IN  Ns(x[1] - y[1] - bb, b + bb * NanosPerSec, c + bc * NanosPerSec)

Overflows(x, y) == ~DigitsLe(ExactAdd(x, y), U64Max)

\* u64 `+` (lib.rs:188): with overflow checks the build panics (None) when
\* the sum does not fit 64 bits; without them the sum wraps modulo 2^64.
U64Add(x, y, checked) ==
    IF Overflows(x, y)
    THEN IF checked THEN None ELSE Some(ExactSub(ExactAdd(x, y), TwoPow64))
    ELSE Some(ExactAdd(x, y))

\* google_cloud_wkt::Timestamp's valid range: seconds of 0001-01-01T00:00:00Z
\* .. 9999-12-31T23:59:59Z, nanos 0 .. 999_999_999.  The seconds passed by
\* convert_unix_ns are never negative, so only the upper limit can apply.
MaxTimestampSeconds == <<253, 402300799>>
MaxTimestampNanos == NanosPerSec - 1

\* Timestamp::clamp(seconds, nanos), for seconds >= 0
TimestampClamp(seconds, nanos) ==
    [seconds |-> IF DigitsLe(seconds, MaxTimestampSeconds) THEN seconds
                 ELSE MaxTimestampSeconds,
     nanos |-> IF nanos < 0 THEN 0
               ELSE IF nanos > MaxTimestampNanos THEN MaxTimestampNanos
               ELSE nanos]

\* unix_time / 1_000_000_000: in base 10^9 the quotient is the value without
\* its last digit, and unix_time % 1_000_000_000 is that last digit.
DivNanosPerSec(unix_time) == <<unix_time[1], unix_time[2]>>
ModNanosPerSec(unix_time) == unix_time[3] % NanosPerSec

\* A mutated convert_unix_ns: divides by 10^9 but takes the remainder by 10^6.
ConvertUnixNsMillis(unix_time) ==
    TimestampClamp(DivNanosPerSec(unix_time), unix_time[3] % 1000000)

\* convert_unix_ns (lib.rs:271-276)
convert_unix_ns(unix_time) ==
    TimestampClamp(DivNanosPerSec(unix_time), ModNanosPerSec(unix_time))

(***************************************************************************)
(* Attribute conversion.                                                   *)
(***************************************************************************)
StringValue(s) == <<"string", s>>

\* AttributeValue::string_value(): Some for the string variant only
string_value(v) == IF v[1] = "string" THEN Some(v[2]) ELSE None

\* lib.rs:234-237: the mapped key when the table has the key, else the key
MappedKey(attribute_name_mappings, k) ==
    IF attribute_name_mappings = None THEN k
    ELSE LET hit == MapGet(attribute_name_mappings[1], k)
         IN  IF hit = None THEN k ELSE hit[1]

\* lib.rs:233-243: the (key, value) pairs handed to HashMap::extend
RECURSIVE MappedPairs(_, _)
MappedPairs(properties, attribute_name_mappings) ==
    IF properties = <<>> THEN <<>>
    ELSE <<<<MappedKey(attribute_name_mappings, Head(properties)[1]),
             StringValue(Head(properties)[2])>>>>
         \o MappedPairs(Tail(properties), attribute_name_mappings)

\* A mutated convert_properties: service.name is inserted after the properties.
ConvertPropertiesServiceLast(service_name, properties, attribute_name_mappings) ==
    LET merged == MapExtend(EmptyMap, MappedPairs(properties, attribute_name_mappings))
    IN  IF service_name = None THEN merged
        ELSE MapInsert(merged, "service.name", StringValue(service_name[1]))

\* convert_properties (lib.rs:218-246); the result is the attribute_map
convert_properties(service_name, properties, attribute_name_mappings) ==
    LET attributes ==
            IF service_name = None THEN EmptyMap
            ELSE MapInsert(EmptyMap, "service.name", StringValue(service_name[1]))
    IN  MapExtend(attributes, MappedPairs(properties, attribute_name_mappings))

(***************************************************************************)
(* Span kinds and the converter slots.                                     *)
(***************************************************************************)
SpanKindUnspecified == <<"Unspecified", "">>
SpanKindInternal == <<"Internal", "">>
SpanKindServer == <<"Server", "">>
SpanKindClient == <<"Client", "">>
SpanKindProducer == <<"Producer", "">>
SpanKindConsumer == <<"Consumer", "">>

\* SpanKind::from(&str), as called at lib.rs:54 and lib.rs:164: the generated
\* conversion of google_cloud_trace_v2 matches the protobuf value names and
\* keeps every other string as an unknown value.
SpanKindFrom(s) ==
    CASE s = "SPAN_KIND_UNSPECIFIED" -> SpanKindUnspecified
      [] s = "INTERNAL" -> SpanKindInternal
      [] s = "SERVER" -> SpanKindServer
      [] s = "CLIENT" -> SpanKindClient
      [] s = "PRODUCER" -> SpanKindProducer
      [] s = "CONSUMER" -> SpanKindConsumer
      [] OTHER -> <<"UnknownValue", s>>

\* default_span_kind_converter (lib.rs:45-56), and the identical closure of
\* new_with_client (lib.rs:158-166)
default_span_kind_converter(attribute_map) ==
    LET removed == MapRemove(attribute_map, "span.kind")
        span_kind == removed.value
        str == IF span_kind = None THEN None ELSE string_value(span_kind[1])
    IN  [result |-> IF str = None THEN SpanKindInternal ELSE SpanKindFrom(str[1]),
         map |-> removed.map]

\* A converter slot holds a function pointer.  "default" is the constructor's
\* default for the slot; "const" is a converter like those of
\* examples/simple.rs:36-37, which returns a fixed value and leaves the map
\* alone; <<"take", k>> is a converter that removes key k from the map and
\* derives its result from the removed value.
DefaultConverter == <<"default", "">>
ConstConverter == <<"const", "">>
TakeConverter(k) == <<"take", k>>

\* the call (self.<slot>_converter)(&span, &mut attributes.attribute_map)
CallConverter(slot, converter, attribute_map) ==
    CASE converter[1] = "take" ->
           LET removed == MapRemove(attribute_map, converter[2])
           IN  [result |-> <<"taken", slot, removed.value>>, map |-> removed.map]
      [] converter[1] = "const" ->
           [result |-> IF slot = "span_kind" THEN SpanKindClient
                       ELSE <<"const", slot>>,
            map |-> attribute_map]
      [] OTHER ->
           IF slot = "span_kind" THEN default_span_kind_converter(attribute_map)
           ELSE [result |-> None, map |-> attribute_map]

\* A mutated converter sequence: the span-kind converter runs first.
RunConvertersKindFirst(cfg, attribute_map) ==
    LET k == CallConverter("span_kind", cfg.span_kind_converter, attribute_map)
        s == CallConverter("status", cfg.status_converter, k.map)
        t == CallConverter("stack_trace", cfg.stack_trace_converter, s.map)
    IN  [status |-> s.result, span_kind |-> k.result, stack_trace |-> t.result,
         map |-> t.map,
         log |-> << <<"span_kind", attribute_map>>, <<"status", k.map>>,
                    <<"stack_trace", s.map>> >>]

\* lib.rs:176-178: status, span-kind and stack-trace converter, each called
\* with the attribute map the previous one left.  log records, per call, the
\* slot and the map the converter was handed.
RunConverters(cfg, attribute_map) ==
    LET s == CallConverter("status", cfg.status_converter, attribute_map)
        k == CallConverter("span_kind", cfg.span_kind_converter, s.map)
        t == CallConverter("stack_trace", cfg.stack_trace_converter, k.map)
    IN  [status |-> s.result, span_kind |-> k.result, stack_trace |-> t.result,
         map |-> t.map,
         log |-> << <<"status", attribute_map>>, <<"span_kind", s.map>>,
                    <<"stack_trace", k.map>> >>]

(***************************************************************************)
(* Span and event translation.                                             *)
(***************************************************************************)
\* fastrace's Display for SpanId and TraceId, used by to_string() at
\* lib.rs:172 and by format! at lib.rs:181-184: the id in hexadecimal, 16 and
\* 32 digits wide.  The text is kept as the pair of its width and its value.
SpanIdToString(span_id) == <<"hex16", span_id>>
TraceIdToString(trace_id) == <<"hex32", trace_id>>

\* convert_parent_span_id (lib.rs:281-283)
convert_parent_span_id(span_id) ==
    IF span_id # 0 THEN Some(SpanIdToString(span_id)) ELSE None

\* convert_event (lib.rs:205-216)
convert_event(cfg, event) ==
    [time |-> convert_unix_ns(event.timestamp_unix_ns),
     attributes |-> convert_properties(cfg.service_name, event.properties,
                                       cfg.attribute_name_mappings),
     description |-> event.name]

\* lib.rs:195: span.events.into_iter().map(|e| self.convert_event(e))
RECURSIVE ConvertEvents(_, _)
ConvertEvents(cfg, events) ==
    IF events = <<>> THEN <<>>
    ELSE <<convert_event(cfg, Head(events))>> \o ConvertEvents(cfg, Tail(events))

\* convert_span (lib.rs:171-203).  span is None when the end-time addition
\* panics; the converters have run by then, so log is filled either way.
convert_span(cfg, span, checked) ==
    LET span_id == SpanIdToString(span.span_id)
        attributes == convert_properties(cfg.service_name, span.properties,
                                         cfg.attribute_name_mappings)
        conv == RunConverters(cfg, attributes)
        end_ns == U64Add(span.begin_time_unix_ns, span.duration_ns, checked)
    IN  [log |-> conv.log,
         span |->
           IF end_ns = None THEN None
           ELSE Some([name |-> <<"projects/", cfg.trace_project_id, "/traces/",
                                 TraceIdToString(span.trace_id), "/spans/",
                                 span_id>>,
                      span_id |-> span_id,
                      display_name |-> span.name,
                      start_time |-> convert_unix_ns(span.begin_time_unix_ns),
                      end_time |-> convert_unix_ns(end_ns[1]),
                      attributes |-> conv.map,
                      status |-> conv.status,
                      span_kind |-> conv.span_kind,
                      stack_trace |-> conv.stack_trace,
                      time_events |-> ConvertEvents(cfg, span.events),
                      parent_span_id |-> convert_parent_span_id(span.parent_id)])]

\* lib.rs:253: spans.into_iter().map(|s| self.convert_span(s))
RECURSIVE ConvertSpans(_, _, _)
ConvertSpans(cfg, spans, checked) ==
    IF spans = <<>> THEN <<>>
    ELSE <<convert_span(cfg, Head(spans), checked)>>
         \o ConvertSpans(cfg, Tail(spans), checked)

(***************************************************************************)
(* The static attribute-name mapping table.                                *)
(***************************************************************************)
\* the array literal of lib.rs:103-140, with the values of the
\* opentelemetry_semantic_conventions::attribute constants written out
SemanticMappingPairs ==
    << <<"otel.component.type", "/component">>,
       <<"exception.message", "/error/message">>,
       <<"exception.message", "/error/name">>,
       <<"network.protocol.version", "/http/client_protocol">>,
       <<"http.host", "/http/host">>,
       <<"http.method", "/http/method">>,
       <<"http.request.method", "/http/method">>,
       <<"http.path", "/http/path">>,
       <<"url.path", "/http/path">>,
       <<"http.request.size", "/http/request/size">>,
       <<"http.response.size", "/http/response/size">>,
       <<"http.route", "/http/route">>,
       <<"http.response.status_code", "/http/status_code">>,
       <<"http.status_code", "/http/status_code">>,
       <<"http.user_agent", "/http/user_agent">>,
       <<"user_agent.original", "/http/user_agent">>,
       <<"k8s.cluster.name", "g.co/r/k8s_container/cluster_name">>,
       <<"k8s.namespace.name", "g.co/r/k8s_container/namespace">>,
       <<"k8s.pod.name", "g.co/r/k8s_container/pod_name">>,
       <<"k8s.container.name", "g.co/r/k8s_container/container_name">> >>

\* opentelemetry_semantic_mapping (lib.rs:102-141): HashMap::from(array)
opentelemetry_semantic_mapping == MapExtend(EmptyMap, SemanticMappingPairs)

(***************************************************************************)
(* Inputs.                                                                 *)
(***************************************************************************)
\* a caller-written mapping table
CallerMapping ==
    MapExtend(EmptyMap, << <<"a.b", "x/y">>, <<"app", "service.name">> >>)

\* span records as fastrace hands them over: wall-clock begin times and
\* measured durations, whose sum is far below the u64 limit (the whole u64
\* range is covered by SpecTime)
SpanRoot ==
    [span_id |-> 42, parent_id |-> 0, trace_id |-> 1, name |-> "simple",
     begin_time_unix_ns |-> Ns(0, 0, 0), duration_ns |-> Ns(0, 1, 0),
     properties |-> << <<"span.kind", "server">>, <<"a.b", "1">> >>,
     events |-> <<[name |-> "note", timestamp_unix_ns |-> Ns(0, 0, 500000000),
                   properties |-> << <<"span.kind", "client">> >>]>>]

SpanChild ==
    [span_id |-> 43, parent_id |-> 42, trace_id |-> 1, name |-> "child",
     begin_time_unix_ns |-> Ns(1, 700000001, 500000000),
     duration_ns |-> Ns(0, 0, 750000000),
     properties |-> << <<"app", "web">>, <<"error", "boom">>,
                       <<"exception.message", "oops">> >>,
     events |-> <<>>]

SpanPool == {SpanRoot, SpanChild}

RECURSIVE SeqsUpTo(_, _)
SeqsUpTo(S, n) ==
    IF n = 0 THEN {<<>>}
    ELSE LET shorter == SeqsUpTo(S, n - 1)
         IN  shorter \cup {Append(q, x) : q \in shorter, x \in S}

Batches == SeqsUpTo(SpanPool, MaxBatch)

\* how batch_write_spans().send() can end: success, or an error of the
\* client (after whatever retries its own policy made)
SendOutcomes == {"ok", "authentication", "transport", "rejected"}

ConverterChoices(slot) ==
    CASE slot = "status" -> {None, Some(TakeConverter("span.kind"))}
      [] slot = "span_kind" -> {None, Some(ConstConverter)}
      [] OTHER -> {None, Some(TakeConverter("span.kind"))}

(***************************************************************************)
(* Construction.                                                           *)
(***************************************************************************)
unwrap_or(option, default) == IF option = None THEN default ELSE option[1]

\* default_trace_client (lib.rs:29-43): both build() results are unwrapped,
\* so a failed build panics (None); ok says whether the builds succeed.
default_trace_client(ok) == IF ok THEN Some("default") ELSE None

\* GoogleCloudReporter::new (lib.rs:72-99).  The argument of unwrap_or at
\* lib.rs:91 is evaluated before unwrap_or is called, so
\* default_trace_client() is awaited whether or not a client is supplied.
\* The return type is Self: the outcome is a reporter, or a panic (None).
\* The tokio_runtime argument only selects the factory the LazyLock will run
\* (lib.rs:90); the runtime itself is the variable tokio_runtime.
new(client, trace_project_id, service_name, attribute_name_mappings, status_converter, span_kind_converter, stack_trace_converter, default_client_ok) ==
    LET built == default_trace_client(default_client_ok)
    IN  [default_client_calls |-> 1,
         reporter |->
           IF built = None THEN None
           ELSE Some([client |-> unwrap_or(client, built[1]),
                      trace_project_id |-> trace_project_id,
                      service_name |-> service_name,
                      attribute_name_mappings |-> attribute_name_mappings,
                      status_converter |->
                          unwrap_or(status_converter, DefaultConverter),
                      span_kind_converter |->
                          unwrap_or(span_kind_converter, DefaultConverter),
                      stack_trace_converter |->
                          unwrap_or(stack_trace_converter, DefaultConverter)])]

\* GoogleCloudReporter::new_with_client (lib.rs:144-169)
new_with_client(client, trace_project_id) ==
    [client |-> client,
     trace_project_id |-> trace_project_id,
     service_name |-> None,
     attribute_name_mappings |-> None,
     status_converter |-> DefaultConverter,
     span_kind_converter |-> DefaultConverter,
     stack_trace_converter |-> DefaultConverter]

\* what the caller passes as attribute_name_mappings: nothing, a table of
\* its own, or the result of calling opentelemetry_semantic_mapping()
MappingArguments == {"none", "caller", "semantic"}

\* GoogleCloudReporter::builder()...build().await
Build ==
    /\ adapter = "unbuilt"
    /\ \E client \in {None, Some("supplied")},
          service_name \in {None, Some("svc")},
          mapping_argument \in MappingArguments,
          status_converter \in ConverterChoices("status"),
          span_kind_converter \in ConverterChoices("span_kind"),
          stack_trace_converter \in ConverterChoices("stack_trace"),
          default_client_ok \in BOOLEAN :
        LET attribute_name_mappings ==
                CASE mapping_argument = "none" -> None
                  [] mapping_argument = "caller" -> Some(CallerMapping)
                  [] OTHER -> Some(opentelemetry_semantic_mapping)
            r == new(client, "p", service_name, attribute_name_mappings,
                     status_converter, span_kind_converter,
                     stack_trace_converter, default_client_ok)
        IN  /\ semantic_mapping' = IF mapping_argument = "semantic"
                                   THEN attribute_name_mappings
                                   ELSE semantic_mapping
            /\ default_client_calls' = default_client_calls + r.default_client_calls
            /\ adapter' = IF r.reporter = None THEN "panicked" ELSE "built"
            /\ config' = r.reporter
    /\ tokio_runtime' = "uninit"
    /\ UNCHANGED <<runtime_builds, reports, nonempty_reports,
                   batch_writes, last_call, last_report, conv_log,
                   overflow_checks, props_in, props_out, time_in, time_out>>

\* GoogleCloudReporter::new_with_client(client, "p")
NewWithClient ==
    /\ adapter = "unbuilt"
    /\ adapter' = "built"
    /\ config' = Some(new_with_client("supplied", "p"))
    /\ tokio_runtime' = "uninit"
    /\ UNCHANGED <<default_client_calls, runtime_builds, semantic_mapping,
                   reports, nonempty_reports, batch_writes, last_call,
                   last_report, conv_log, overflow_checks, props_in, props_out,
                   time_in, time_out>>

(***************************************************************************)
(* Reporting.                                                              *)
(***************************************************************************)
\* A mutated emptiness test: an empty batch is sent like any other.
SendsBatchAlways(spans) == TRUE

\* report's early return (lib.rs:261-263): only a non-empty batch goes on
SendsBatch(spans) == spans # <<>>

\* A mutated runtime handle: a fresh runtime is built on every use.
RuntimeRebuilt(state) == [state |-> "init", builds |-> 1]

\* Dereferencing the LazyLock (lib.rs:249): the factory runs on the first
\* dereference only; later ones find the value.
LazyLockForce(state) ==
    [state |-> "init", builds |-> IF state = "uninit" THEN 1 ELSE 0]

\* A mutated error branch: the send error leaves report as a panic.
OnSendResultPropagate(send_result) ==
    [result |-> IF send_result = "ok" THEN "returned" ELSE "panicked",
     logged |-> FALSE]

\* lib.rs:265-267: an Err is logged with log::error! and dropped
OnSendResult(send_result) ==
    [result |-> "returned", logged |-> send_result # "ok"]

RECURSIVE LogsOf(_)
LogsOf(converted) ==
    IF converted = <<>> THEN <<>>
    ELSE <<Head(converted).log>> \o LogsOf(Tail(converted))

RECURSIVE GoogleSpansOf(_)
GoogleSpansOf(converted) ==
    IF converted = <<>> THEN <<>>
    ELSE <<Head(converted).span[1]>> \o GoogleSpansOf(Tail(converted))

\* try_report (lib.rs:248-256): the request is built from all converted
\* spans; request is None when a conversion panicked, and then nothing is
\* sent.  Otherwise the request is sent once, with block_on.
try_report(cfg, spans, checked) ==
    LET converted == ConvertSpans(cfg, spans, checked)
        panicked == \E i \in 1..Len(converted) : converted[i].span = None
    IN  [logs |-> LogsOf(converted),
         request |->
           IF panicked THEN None
           ELSE Some([name |-> "projects/" \o cfg.trace_project_id,
                      spans |-> GoogleSpansOf(converted)])]

\* Reporter::report (lib.rs:259-269)
Report ==
    /\ adapter = "built"
    /\ reports < MaxReports
    /\ \E spans \in Batches :
        /\ reports' = reports + 1
        /\ nonempty_reports' = nonempty_reports + (IF spans = <<>> THEN 0 ELSE 1)
        /\ IF ~SendsBatch(spans)
           THEN /\ last_report' = Some([spans |-> spans, result |-> "returned",
                                        logged |-> FALSE, sent |-> FALSE])
                /\ conv_log' = <<>>
                /\ UNCHANGED <<tokio_runtime, runtime_builds, batch_writes,
                               last_call>>
           ELSE \E t \in {try_report(config[1], spans, overflow_checks)} :
                LET rt == LazyLockForce(tokio_runtime)
                IN  /\ tokio_runtime' = rt.state
                    /\ runtime_builds' = runtime_builds + rt.builds
                    /\ conv_log' = t.logs
                    /\ IF t.request = None
                       THEN /\ last_report' =
                                  Some([spans |-> spans, result |-> "panicked",
                                        logged |-> FALSE, sent |-> FALSE])
                            /\ UNCHANGED <<batch_writes, last_call>>
                       ELSE \E send_result \in SendOutcomes :
                            LET h == OnSendResult(send_result)
                            IN  /\ batch_writes' = batch_writes + 1
                                /\ last_call' = t.request
                                /\ last_report' =
                                      Some([spans |-> spans, result |-> h.result,
                                            logged |-> h.logged, sent |-> TRUE])
    /\ UNCHANGED <<adapter, config, default_client_calls, semantic_mapping,
                   overflow_checks, props_in, props_out, time_in, time_out>>

Init ==
    /\ adapter = "unbuilt"
    /\ config = None
    /\ default_client_calls = 0
    /\ tokio_runtime = "uninit"
    /\ runtime_builds = 0
    /\ semantic_mapping = None
    /\ reports = 0
    /\ nonempty_reports = 0
    /\ batch_writes = 0
    /\ last_call = None
    /\ last_report = None
    /\ conv_log = <<>>
    /\ overflow_checks \in BOOLEAN
    /\ props_in = None
    /\ props_out = None
    /\ time_in = None
    /\ time_out = None

Next == Build \/ NewWithClient \/ Report

Spec == Init /\ [][Next]_vars

(***************************************************************************)
(* convert_properties on its own, over all short property lists.           *)
(***************************************************************************)
PropKeys == {"a.b", "c.d", "x/y", "service.name"}
PropValues == {"1", "2"}
PropertyLists == SeqsUpTo(PropKeys \X PropValues, MaxProps)

\* two input keys with one output key
ManyToOneMapping ==
    MapExtend(EmptyMap, << <<"a.b", "x/y">>, <<"c.d", "x/y">> >>)

\* an output key that is itself a key of the table, and a key mapped to
\* service.name
ChainMapping ==
    MapExtend(EmptyMap, << <<"x/y", "a.b">>, <<"a.b", "service.name">> >>)

PropsMappings == {None, Some(ManyToOneMapping), Some(ChainMapping)}

InitProps ==
    /\ adapter = "unbuilt"
    /\ config = None
    /\ default_client_calls = 0
    /\ tokio_runtime = "uninit"
    /\ runtime_builds = 0
    /\ semantic_mapping = None
    /\ reports = 0
    /\ nonempty_reports = 0
    /\ batch_writes = 0
    /\ last_call = None
    /\ last_report = None
    /\ conv_log = <<>>
    /\ overflow_checks = FALSE
    /\ props_in \in {Some([service_name |-> sn, properties |-> ps,
                           attribute_name_mappings |-> m]) :
                       sn \in {None, Some("svc")}, ps \in PropertyLists,
                       m \in PropsMappings}
    /\ props_out = None
    /\ time_in = None
    /\ time_out = None

\* self.convert_properties(&properties, self.attribute_name_mappings.as_ref())
ConvertPropertiesCall ==
    /\ props_in # None
    /\ props_out = None
    /\ props_out' = Some(convert_properties(props_in[1].service_name,
                                            props_in[1].properties,
                                            props_in[1].attribute_name_mappings))
    /\ UNCHANGED <<adapter, config, default_client_calls, tokio_runtime,
                   runtime_builds, semantic_mapping, reports, nonempty_reports,
                   batch_writes, last_call, last_report, conv_log,
                   overflow_checks, props_in, time_in, time_out>>

NextProps == ConvertPropertiesCall

SpecProps == InitProps /\ [][NextProps]_vars

(***************************************************************************)
(* The timestamps of convert_span, over the whole u64 range.               *)
(***************************************************************************)
TimeSamples ==
    {Ns(0, 0, 0), Ns(0, 0, 1), Ns(0, 0, 999999999), Ns(0, 1, 0),
     Ns(1, 700000001, 500000000),
     Ns(9, 223372036, 854775807),       \* 2^63 - 1
     Ns(9, 223372036, 854775808),       \* 2^63
     Ns(18, 446744073, 0),
     Ns(18, 446744073, 709551614),
     U64Max}

InitTime ==
    /\ adapter = "unbuilt"
    /\ config = None
    /\ default_client_calls = 0
    /\ tokio_runtime = "uninit"
    /\ runtime_builds = 0
    /\ semantic_mapping = None
    /\ reports = 0
    /\ nonempty_reports = 0
    /\ batch_writes = 0
    /\ last_call = None
    /\ last_report = None
    /\ conv_log = <<>>
    /\ overflow_checks \in BOOLEAN
    /\ props_in = None
    /\ props_out = None
    /\ time_in \in {Some(<<b, d>>) : b \in TimeSamples, d \in TimeSamples}
    /\ time_out = None

\* convert_span on a span with the drawn begin time and duration; time_out
\* is Some(None) when the call panicked, else Some(Some(timestamps))
ConvertSpanTimes ==
    /\ time_in # None
    /\ time_out = None
    /\ \E r \in {convert_span(new_with_client("supplied", "p"),
                              [SpanRoot EXCEPT
                                 !.begin_time_unix_ns = time_in[1][1],
                                 !.duration_ns = time_in[1][2]],
                              overflow_checks)} :
         time_out' = Some(IF r.span = None THEN None
                          ELSE Some([start_time |-> r.span[1].start_time,
                                     end_time |-> r.span[1].end_time]))
    /\ UNCHANGED <<adapter, config, default_client_calls, tokio_runtime,
                   runtime_builds, semantic_mapping, reports, nonempty_reports,
                   batch_writes, last_call, last_report, conv_log,
                   overflow_checks, props_in, props_out, time_in>>

NextTime == ConvertSpanTimes

SpecTime == InitTime /\ [][NextTime]_vars

(***************************************************************************)
(* Properties.                                                             *)
(***************************************************************************)
\* m without the keys in K
Without(m, K) == [x \in DOMAIN m \ K |-> m[x]]

\* the keys a converter of a slot removes from the map it is handed
RemovedBy(slot, converter) ==
    CASE converter[1] = "take" -> {converter[2]}
      [] converter[1] = "const" -> {}
      [] OTHER -> IF slot = "span_kind" THEN {"span.kind"} ELSE {}

C2_ReportSwallowsFailure ==
    /\ [](/\ last_report # None => last_report[1].result = "returned"
          /\ batch_writes = nonempty_reports)
    /\ [][adapter = "built" =>
            /\ adapter' = "built"
            /\ config' = config
            /\ (/\ last_report # None
                /\ last_report[1].logged
                /\ reports' = reports + 1
                /\ last_report'[1].spans # <<>>) =>
                   batch_writes' = batch_writes + 1]_vars

\* the second of two reports ended with a send error that was logged, and
\* both reports issued their call
C2_Witness ==
    /\ reports = 2
    /\ batch_writes = 2
    /\ last_report # None
    /\ last_report[1].logged
    /\ last_report[1].result = "returned"

\* C3: without a supplied client, a failed default client construction is
\* returned to the caller as an error (never a panic), and with a supplied
\* client no default client is ever built.
C3_ConstructionReturnsError ==
    /\ adapter # "panicked"
    /\ (config # None /\ config[1].client = "supplied") => default_client_calls = 0

\* C4: with the default span-kind converter, a span whose converted
\* attributes hold span.kind = "server" gets kind Server, a span without the
\* entry or with an unrecognized value gets Internal, and the final attribute
\* set never holds span.kind.
C4_DefaultSpanKind ==
    (/\ last_report # None
     /\ last_report[1].sent
     /\ config[1].span_kind_converter = DefaultConverter) =>
        \A i \in 1..Len(last_call[1].spans) :
          LET seen == conv_log[i][2][2]
              out == last_call[1].spans[i]
          IN  /\ "span.kind" \notin DOMAIN out.attributes
              /\ IF "span.kind" \in DOMAIN seen
                    /\ seen["span.kind"] = StringValue("server")
                 THEN out.span_kind = SpanKindServer
                 ELSE out.span_kind = SpanKindInternal

\* the key a property key is rewritten to under a mapping table
Rewritten(mappings, k) ==
    IF mappings # None /\ k \in DOMAIN mappings[1] THEN mappings[1][k] ELSE k

\* the position of the last property whose rewritten key is key
LastWith(mappings, properties, key) ==
    CHOOSE i \in 1..Len(properties) :
        /\ Rewritten(mappings, properties[i][1]) = key
        /\ \A j \in (i + 1)..Len(properties) :
              Rewritten(mappings, properties[j][1]) # key

RewrittenKeys(mappings, properties) ==
    {Rewritten(mappings, properties[i][1]) : i \in 1..Len(properties)}

\* C5: the keys of the attribute map (apart from a synthetic service.name)
\* are exactly the rewritten input keys, each rewritten once; the value under
\* an output key is that of the last property, in list order, rewritten to
\* it; a key of the table is absent unless some property is rewritten to it.
C5_ForwardRewriteLastWins ==
    props_out # None =>
        LET in == props_in[1]
            out == props_out[1]
            keys == RewrittenKeys(in.attribute_name_mappings, in.properties)
            synthetic == IF in.service_name # None THEN {"service.name"} ELSE {}
        IN  /\ DOMAIN out \ synthetic = keys \ synthetic
            /\ keys \subseteq DOMAIN out
            /\ \A key \in keys :
                 out[key] = StringValue(
                     in.properties[LastWith(in.attribute_name_mappings,
                                            in.properties, key)][2])
            /\ \A i \in 1..Len(in.properties) :
                 LET k == in.properties[i][1]
                 IN  (/\ in.attribute_name_mappings # None
                      /\ k \in DOMAIN in.attribute_name_mappings[1]
                      /\ k \notin keys
                      /\ k \notin synthetic) => k \notin DOMAIN out

\* a.b and c.d are both rewritten to x/y with different values, and the key
\* a.b, which is in the table, is not in the output
C5_Witness ==
    /\ props_out # None
    /\ props_in[1].attribute_name_mappings = Some(ManyToOneMapping)
    /\ props_in[1].properties = << <<"a.b", "1">>, <<"c.d", "2">>, <<"a.b", "1">> >>
    /\ props_out[1]["x/y"] = StringValue("1")
    /\ "a.b" \notin DOMAIN props_out[1]

\* C6: with a service name S configured the attribute set holds service.name,
\* with value S when no property is rewritten to service.name and else the
\* value of the last such property; with none configured no service.name
\* entry is added.
C6_ServiceName ==
    props_out # None =>
        LET in == props_in[1]
            out == props_out[1]
            keys == RewrittenKeys(in.attribute_name_mappings, in.properties)
        IN  IF in.service_name # None
            THEN /\ "service.name" \in DOMAIN out
                 /\ out["service.name"] =
                      IF "service.name" \in keys
                      THEN StringValue(
                               in.properties[LastWith(in.attribute_name_mappings,
                                                      in.properties,
                                                      "service.name")][2])
                      ELSE StringValue(in.service_name[1])
            ELSE "service.name" \in DOMAIN out <=> "service.name" \in keys

\* svc is configured and the property a.b = 2, rewritten to service.name,
\* overwrites it
C6_Witness ==
    /\ props_out # None
    /\ props_in[1].service_name = Some("svc")
    /\ props_in[1].attribute_name_mappings = Some(ChainMapping)
    /\ props_in[1].properties = << <<"a.b", "2">> >>
    /\ props_out[1]["service.name"] = StringValue("2")

\* seconds * 10^9 + nanos of a timestamp, as a three-digit value
TimestampNs(ts) == Ns(ts.seconds[1], ts.seconds[2], ts.nanos)

NanosInRange(ts) == ts.nanos >= 0 /\ ts.nanos <= NanosPerSec - 1

\* C7 as stated: for every begin time B and duration D the start timestamp
\* is the split of B and the end timestamp the split of the exact sum B + D,
\* so end is not before start and nanos is in 0 .. 10^9 - 1.
C7_ExactSumForAnyInput ==
    time_out # None =>
        /\ time_out[1] # None
        /\ LET ts == time_out[1][1]
           IN  /\ TimestampNs(ts.start_time) = time_in[1][1]
               /\ TimestampNs(ts.end_time) = ExactAdd(time_in[1][1], time_in[1][2])
               /\ NanosInRange(ts.start_time) /\ NanosInRange(ts.end_time)
               /\ DigitsLe(TimestampNs(ts.start_time), TimestampNs(ts.end_time))

\* C7 amended: when B + D fits 64 bits the timestamps are the splits of B
\* and of the exact sum, end is not before start, nanos is in range and the
\* clamp changes nothing; when B + D does not fit, a build with overflow
\* checks panics and any other build wraps: end is the split of
\* B + D - 2^64, which is before start.
C7_SplitUnlessOverflow ==
    time_out # None =>
        LET B == time_in[1][1]
            D == time_in[1][2]
        IN  IF DigitsLe(ExactAdd(B, D), U64Max)
            THEN /\ time_out[1] # None
                 /\ LET ts == time_out[1][1]
                    IN  /\ TimestampNs(ts.start_time) = B
                        /\ TimestampNs(ts.end_time) = ExactAdd(B, D)
                        /\ NanosInRange(ts.start_time)
                        /\ NanosInRange(ts.end_time)
                        /\ DigitsLe(TimestampNs(ts.start_time),
                                    TimestampNs(ts.end_time))
            ELSE IF overflow_checks
            THEN time_out[1] = None
            ELSE /\ time_out[1] # None
                 /\ LET ts == time_out[1][1]
                    IN  /\ TimestampNs(ts.start_time) = B
                        /\ ExactAdd(TimestampNs(ts.end_time), TwoPow64)
                             = ExactAdd(B, D)
                        /\ NanosInRange(ts.start_time)
                        /\ NanosInRange(ts.end_time)
                        /\ ~DigitsLe(TimestampNs(ts.start_time),
                                     TimestampNs(ts.end_time))

\* the begin time 1_700_000_001_500_000_000 with a duration of one second
C7_Witness ==
    /\ time_out # None
    /\ time_in[1] = <<Ns(1, 700000001, 500000000), Ns(0, 1, 0)>>
    /\ time_out[1] # None
    /\ time_out[1][1].start_time = [seconds |-> <<1, 700000001>>, nanos |-> 500000000]
    /\ time_out[1][1].end_time = [seconds |-> <<1, 700000002>>, nanos |-> 500000000]

\* C8: the static table maps every listed semantic-convention key to its own
\* backend path: exception.message to /error/message, exception.type to
\* /error/name, and the HTTP, Kubernetes and network protocol keys.
C8_SemanticMappingTable ==
    semantic_mapping # None =>
        LET m == semantic_mapping[1]
            Maps(k, v) == k \in DOMAIN m /\ m[k] = v
        IN  /\ Maps("exception.message", "/error/message")
            /\ Maps("exception.type", "/error/name")
            /\ Maps("http.method", "/http/method")
            /\ Maps("http.host", "/http/host")
            /\ Maps("url.path", "/http/path")
            /\ Maps("http.status_code", "/http/status_code")
            /\ Maps("http.user_agent", "/http/user_agent")
            /\ Maps("http.route", "/http/route")
            /\ Maps("http.request.size", "/http/request/size")
            /\ Maps("http.response.size", "/http/response/size")
            /\ Maps("k8s.cluster.name", "g.co/r/k8s_container/cluster_name")
            /\ Maps("k8s.namespace.name", "g.co/r/k8s_container/namespace")
            /\ Maps("k8s.pod.name", "g.co/r/k8s_container/pod_name")
            /\ Maps("k8s.container.name", "g.co/r/k8s_container/container_name")
            /\ Maps("network.protocol.version", "/http/client_protocol")

\* the result a converter of a slot returns when handed the map seen
ResultOn(slot, converter, seen) ==
    CASE converter[1] = "take" -> <<"taken", slot, MapGet(seen, converter[2])>>
      [] converter[1] = "const" ->
           IF slot = "span_kind" THEN SpanKindClient ELSE <<"const", slot>>
      [] OTHER ->
           IF slot # "span_kind" THEN None
           ELSE IF "span.kind" \in DOMAIN seen
                THEN SpanKindFrom(seen["span.kind"][2])
                ELSE SpanKindInternal

\* C9: in convert_span each of the three converters runs exactly once, in the
\* order status, span-kind, stack-trace, starting from the converted
\* properties; each is handed the map as the converters before it left it,
\* and the span's attribute set is the map the stack-trace converter left.
\* Event attribute sets are the converted event properties, untouched by any
\* converter.
C9_ConverterOrder ==
    (last_report # None /\ last_report[1].sent) =>
        LET cfg == config[1]
        IN  /\ Len(conv_log) = Len(last_report[1].spans)
            /\ \A i \in 1..Len(last_report[1].spans) :
                 LET span == last_report[1].spans[i]
                     out == last_call[1].spans[i]
                     log == conv_log[i]
                 IN  /\ Len(log) = 3
                     /\ <<log[1][1], log[2][1], log[3][1]>>
                          = <<"status", "span_kind", "stack_trace">>
                     /\ log[1][2] = convert_properties(cfg.service_name,
                                        span.properties,
                                        cfg.attribute_name_mappings)
                     /\ log[2][2] = Without(log[1][2],
                                        RemovedBy("status", cfg.status_converter))
                     /\ log[3][2] = Without(log[2][2],
                                        RemovedBy("span_kind",
                                                  cfg.span_kind_converter))
                     /\ out.attributes
                          = Without(log[3][2],
                                    RemovedBy("stack_trace",
                                              cfg.stack_trace_converter))
                     /\ out.status
                          = ResultOn("status", cfg.status_converter, log[1][2])
                     /\ out.span_kind
                          = ResultOn("span_kind", cfg.span_kind_converter,
                                     log[2][2])
                     /\ out.stack_trace
                          = ResultOn("stack_trace", cfg.stack_trace_converter,
                                     log[3][2])
                     /\ Len(out.time_events) = Len(span.events)
                     /\ \A j \in 1..Len(span.events) :
                          out.time_events[j].attributes
                            = convert_properties(cfg.service_name,
                                                 span.events[j].properties,
                                                 cfg.attribute_name_mappings)

\* a status converter that takes span.kind runs before the default span-kind
\* converter, which therefore finds no span.kind and answers Internal; the
\* stack-trace converter, last, finds nothing left to take; the event keeps
\* its span.kind attribute
C9_Witness ==
    /\ last_report # None
    /\ last_report[1].sent
    /\ last_report[1].spans = <<SpanRoot>>
    /\ config[1].status_converter = TakeConverter("span.kind")
    /\ config[1].span_kind_converter = DefaultConverter
    /\ config[1].stack_trace_converter = TakeConverter("span.kind")
    /\ last_call[1].spans[1].status
         = <<"taken", "status", Some(StringValue("server"))>>
    /\ last_call[1].spans[1].span_kind = SpanKindInternal
    /\ last_call[1].spans[1].stack_trace = <<"taken", "stack_trace", None>>
    /\ "span.kind" \in DOMAIN last_call[1].spans[1].time_events[1].attributes

\* C10: the runtime is built at most once: it does not exist before the
\* first report of a non-empty batch, that report builds it, later reports
\* reuse it, and reports of empty batches never build it; once built it stays.
C10_RuntimeBuiltOnce ==
    /\ [](/\ runtime_builds <= 1
          /\ runtime_builds = (IF nonempty_reports > 0 THEN 1 ELSE 0)
          /\ tokio_runtime = (IF nonempty_reports > 0 THEN "init" ELSE "uninit"))
    /\ [][tokio_runtime = "init" =>
            tokio_runtime' = "init" /\ runtime_builds' = runtime_builds]_vars

\* two reports of non-empty batches, one runtime
C10_Witness ==
    /\ reports = 2
    /\ nonempty_reports = 2
    /\ runtime_builds = 1
    /\ tokio_runtime = "init"

====
